---- MODULE Spec2Model ----
(***************************************************************************)
(* Model of find_stops.py: one run of the command-line entry point, which  *)
(* dispatches to search_stops_by_name, find_stops_by_lat_lon or            *)
(* get_departures.  Each of these issues one HTTP GET, checks the          *)
(* transport status and the nested application status, and prints a table. *)
(*                                                                         *)
(* Strings that the program inspects (argv tokens, stop names) are         *)
(* sequences of one-character strings.  A Python dict is a TLA+ function   *)
(* whose DOMAIN is the set of keys the dict holds.  A printed line is a    *)
(* record holding the line's kind and the values formatted into it.        *)
(***************************************************************************)
EXTENDS Integers, Sequences, FiniteSets, TLC

VARIABLES
    argv,       \* sys.argv
    apiKeySet,  \* CUMTD_API_KEY is set, so API_KEY is not the placeholder
    pc,         \* where the run stands in the script and the called operation
    call,       \* the operation the entry point called, with its arguments
    resp,       \* the response object of requests.get, empty before it arrives
    data,       \* the value of resp.json()
    matches,    \* the filtered roster of search_stops_by_name
    out,        \* the lines printed on standard output
    result,     \* what the operation returned
    exitCode,   \* exit status of the process
    exc,        \* the uncaught exception that ended the run, "none" if none did
    gets        \* number of HTTP GET requests issued

vars == <<argv, apiKeySet, pc, call, resp, data, matches, out, result,
          exitCode, exc, gets>>

----------------------------------------------------------------------------
(* Bounds of the model *)

\* longest argument list after the subcommand
MaxArgs == 2
\* longest stop roster the getstops endpoint returns
MaxRoster == 27
\* longest stop list the getstopsbylatlon endpoint returns
MaxNearby == 12
\* longest departure list the getdeparturesbystop endpoint returns
MaxDepartures == 17

----------------------------------------------------------------------------
(* Program constants *)

\* matches[:25]
SearchLimit == 25
\* departures[:15]
DepartureLimit == 15
\* dep.get("headsign", "")[:24]
HeadsignLimit == 24
\* count: int = 10
DefaultCount == 10
\* resp.status_code != 200, status code != 200
OK == 200

----------------------------------------------------------------------------
(* Strings *)

Str_search     == <<"s","e","a","r","c","h">>
Str_nearby     == <<"n","e","a","r","b","y">>
Str_departures == <<"d","e","p","a","r","t","u","r","e","s">>
Str_help       == <<"h","e","l","p">>
Str_h          == <<"-","h">>
Str_help2      == <<"-","-","h","e","l","p">>

\* str.lower() on one character of the model's alphabet
LowerChar(c) ==
    CASE c = "A" -> "a"
      [] c = "B" -> "b"
      [] c = "H" -> "h"
      [] c = "S" -> "s"
      [] OTHER -> c

\* str.lower()
Lower(s) == [i \in 1..Len(s) |-> LowerChar(s[i])]

\* a in b, for strings
IsSubstring(a, b) ==
    \E i \in 0..(Len(b) - Len(a)) : SubSeq(b, i + 1, i + Len(a)) = a

\* " ".join(parts)
RECURSIVE Join(_)
Join(parts) ==
    IF Len(parts) = 0 THEN <<>>
    ELSE IF Len(parts) = 1 THEN parts[1]
    ELSE parts[1] \o <<" ">> \o Join(Tail(parts))

Digits == {"0", "1", "2", "3", "4", "5", "6", "7", "8", "9"}

\* float(s) succeeds; the argument alphabet holds no sign, point or exponent
FloatParses(s) == Len(s) > 0 /\ \A i \in 1..Len(s) : s[i] \in Digits

DigitValue(c) ==
    CASE c = "0" -> 0 [] c = "1" -> 1 [] c = "2" -> 2 [] c = "3" -> 3
      [] c = "4" -> 4 [] c = "5" -> 5 [] c = "6" -> 6 [] c = "7" -> 7
      [] c = "8" -> 8 [] c = "9" -> 9

\* float(s) for a digit string
RECURSIVE Float(_)
Float(s) ==
    IF Len(s) = 0 THEN 0
    ELSE 10 * Float(SubSeq(s, 1, Len(s) - 1)) + DigitValue(s[Len(s)])

DigitChar(d) ==
    CASE d = 0 -> "0" [] d = 1 -> "1" [] d = 2 -> "2" [] d = 3 -> "3"
      [] d = 4 -> "4" [] d = 5 -> "5" [] d = 6 -> "6" [] d = 7 -> "7"
      [] d = 8 -> "8" [] d = 9 -> "9"

\* the decimal digits an f-string writes for a natural number
RECURSIVE Str(_)
Str(n) == IF n < 10 THEN <<DigitChar(n)>> ELSE Str(n \div 10) \o <<DigitChar(n % 10)>>

\* dict.get(key, default)
Get(d, key, default) == IF key \in DOMAIN d THEN d[key] ELSE default

\* s[:n]
Take(s, n) == SubSeq(s, 1, IF Len(s) < n THEN Len(s) ELSE n)

----------------------------------------------------------------------------
(* Inputs: argument vectors *)

Str_script == <<"f">>
Str_Help   == <<"H","e","l","p">>

\* values given after the subcommand: two words, a number and the empty string
ArgTokens == {<<"a">>, <<"B">>, <<"1">>, <<>>}

\* first argument: the subcommands, the help forms (one capitalised) and
\* words that are no subcommand
CmdTokens == {Str_search, Str_nearby, Str_departures, Str_help, Str_h,
              Str_help2, Str_Help} \cup ArgTokens

SeqsUpTo(S, n) == UNION {[1..k -> S] : k \in 0..n}

\* sys.argv
Argvs == {<<Str_script>>} \cup
         {<<Str_script, c>> \o a : c \in CmdTokens, a \in SeqsUpTo(ArgTokens, MaxArgs)}

----------------------------------------------------------------------------
(* Inputs: what the backend may answer *)

StatusCodes == {OK, 404, 500}

\* elements of the "stops" array; the position in the array becomes the id
StopTemplates == {
    [stop_id |-> 0, stop_name |-> <<"A","b">>],
    [stop_id |-> 0, stop_name |-> <<"a"," ","b">>, distance |-> 3],
    [stop_id |-> 0, stop_name |-> <<"b","A","1">>],
    [stop_id |-> 0],
    [stop_name |-> <<"b","1">>] }

WithId(t, i) == IF "stop_id" \in DOMAIN t THEN [t EXCEPT !.stop_id = i] ELSE t

Roster(n, t1, t2) == [i \in 1..n |-> WithId(IF i % 2 = 1 THEN t1 ELSE t2, i)]

Rosters(max) == {Roster(n, t1, t2) : n \in 0..max, t1 \in StopTemplates, t2 \in StopTemplates}

LongHeadsign == [i \in 1..(HeadsignLimit + 2) |-> IF i % 2 = 1 THEN "a" ELSE "b"]

\* elements of the "departures" array
DepartureTemplates == {
    [route |-> [route_short_name |-> "5E", route_color |-> "008063"],
     headsign |-> LongHeadsign, expected_mins |-> 0],
    [route |-> [route_short_name |-> "22"], headsign |-> <<"A","b">>],
    [destination |-> "none"] }

WithMins(t, i) ==
    IF "expected_mins" \in DOMAIN t THEN [t EXCEPT !.expected_mins = i] ELSE t

DepartureList(n, t1, t2) ==
    [i \in 1..n |-> WithMins(IF i % 2 = 1 THEN t1 ELSE t2, i)]

DepartureLists ==
    {DepartureList(n, t1, t2) :
        n \in 0..MaxDepartures, t1 \in DepartureTemplates, t2 \in DepartureTemplates}

EmptyDict == [k \in {} |-> 0]

GoodStatus == [code |-> OK, msg |-> "ok"]

\* nested status objects that do not report code 200
BadStatuses == {[code |-> 403, msg |-> "Invalid key"], [code |-> 500],
                [msg |-> "no code"], EmptyDict}

\* the list the endpoint of fn returns, as a part of the JSON object
ListParts(fn) ==
    {EmptyDict} \cup
    CASE fn = "search_stops_by_name"  -> {[stops |-> r] : r \in Rosters(MaxRoster)}
      [] fn = "find_stops_by_lat_lon" -> {[stops |-> r] : r \in Rosters(MaxNearby)}
      [] fn = "get_departures"        -> {[departures |-> d] : d \in DepartureLists}

SmallListParts(fn) ==
    {EmptyDict} \cup
    CASE fn = "search_stops_by_name"  -> {[stops |-> r] : r \in Rosters(1)}
      [] fn = "find_stops_by_lat_lon" -> {[stops |-> r] : r \in Rosters(1)}
      [] fn = "get_departures"        ->
            {[departures |-> DepartureList(1, t, t)] : t \in DepartureTemplates}

\* JSON objects the endpoint of fn may send
Objects(fn) ==
    {[status |-> GoodStatus] @@ l : l \in ListParts(fn)}
    \cup {[status |-> [code |-> OK]] @@ l : l \in SmallListParts(fn)}
    \cup {[status |-> s] @@ l : s \in BadStatuses, l \in SmallListParts(fn)}
    \cup SmallListParts(fn)

\* response bodies: not JSON at all, JSON that is no object, a JSON object
Bodies(fn) ==
    {[json |-> "invalid"], [json |-> "array"]}
    \cup {[json |-> "object", value |-> o] : o \in Objects(fn)}

\* bodies sent along with a transport status other than 200
ErrorBodies(fn) ==
    {[json |-> "invalid"]}
    \cup {[json |-> "object", value |-> [status |-> GoodStatus] @@ l] :
            l \in SmallListParts(fn)}

Responses(fn) ==
    {[status_code |-> OK, body |-> b] : b \in Bodies(fn)}
    \cup {[status_code |-> c, body |-> b] : c \in StatusCodes \ {OK}, b \in ErrorBodies(fn)}

----------------------------------------------------------------------------
(* Printed lines *)

\* print_usage(): the module docstring and the two notes about the key
Usage == <<[kind |-> "usage"], [kind |-> "note"], [kind |-> "note"]>>

\* the two lines printed when no API key is configured
KeyWarning == <<[kind |-> "warning"], [kind |-> "warning"]>>

\* print(f"Error: API returned status {resp.status_code}")
TransportError(code) == [kind |-> "transport_error", code |-> code]

\* print(f"API Error: {msg}")
ApiError(msg) == [kind |-> "api_error", msg |-> msg]

\* title line, column header and rule of a table
TableHead(title) == <<title, [kind |-> "columns"], [kind |-> "rule"]>>

\* print(f"\n... and {n} more ...")
More(n) == [kind |-> "more", n |-> n]

Rows(o) == SelectSeq(o, LAMBDA l : l.kind = "row")

----------------------------------------------------------------------------
(* The computations of the three operations *)

\* index of the first element that lacks one of the keys, Len + 1 if none does
FirstFault(list, keys) ==
    LET bad == {i \in 1..Len(list) : ~(keys \subseteq DOMAIN list[i])}
    IN  IF bad = {} THEN Len(list) + 1
        ELSE CHOOSE i \in bad : \A j \in bad : i <= j

\* the filter with the stop name left in its own case
MatchesNameNotLowered(query, all_stops) ==
    SelectSeq(all_stops, LAMBDA s : IsSubstring(Lower(query), s.stop_name))

\* [s for s in all_stops if query.lower() in s["stop_name"].lower()]
Matches(query, all_stops) ==
    SelectSeq(all_stops, LAMBDA s : IsSubstring(Lower(query), Lower(s.stop_name)))

\* f"{stop['stop_id']:<20} {stop['stop_name']}"
SearchRow(stop) ==
    [kind |-> "row", stop_id |-> stop.stop_id, stop_name |-> stop.stop_name]

\* f"{stop['stop_id']:<20} {stop['stop_name']:<40} {distance} mi"
NearbyRow(stop) ==
    [kind |-> "row", stop_id |-> stop.stop_id, stop_name |-> stop.stop_name,
     distance |-> IF "distance" \in DOMAIN stop THEN Str(stop.distance)
                  ELSE <<"N", "/", "A">>]

\* f"{route_name:<8} {headsign:<25} {mins:<10} #{color}"
DepartureRow(dep) ==
    LET route == Get(dep, "route", EmptyDict)
    IN  [kind |-> "row",
         route_name |-> Get(route, "route_short_name", <<"?">>),
         headsign |-> Take(Get(dep, "headsign", <<>>), HeadsignLimit),
         mins |-> IF "expected_mins" \in DOMAIN dep THEN Str(dep.expected_mins)
                  ELSE <<"?">>,
         color |-> Get(route, "route_color", <<"N", "/", "A">>)]

\* the stops the nearby loop prints: all of them
NearbyShown(stops) == stops

\* the search loop over matches instead of matches[:25]
SearchShownAll(m) == m

\* matches[:25]
SearchShown(m) == Take(m, SearchLimit)

\* the departures loop over departures[:16]
DeparturesShownOneMore(departures) == Take(departures, DepartureLimit + 1)

\* departures[:15]
DeparturesShown(departures) == Take(departures, DepartureLimit)

----------------------------------------------------------------------------
(* State *)

NoCall == [fn |-> "none"]

Init ==
    /\ argv \in Argvs
    /\ apiKeySet \in BOOLEAN
    /\ pc = "start"
    /\ call = NoCall
    /\ resp = EmptyDict
    /\ data = EmptyDict
    /\ matches = <<>>
    /\ out = <<>>
    /\ result = <<>>
    /\ exitCode = 0
    /\ exc = "none"
    /\ gets = 0

\* an exception nobody catches: traceback on stderr, exit status 1
Raise(e) ==
    /\ pc' = "exited"
    /\ exc' = e
    /\ exitCode' = 1

\* the operation returns r and the script runs off its end
Return(r) ==
    /\ pc' = "exited"
    /\ result' = r
    /\ UNCHANGED <<exc, exitCode>>

\* sys.argv[1].lower()
Cmd == Lower(argv[2])

IsSearch     == Cmd = Str_search /\ Len(argv) >= 3
IsNearby     == Cmd = Str_nearby /\ Len(argv) >= 4
IsDepartures == Cmd = Str_departures /\ Len(argv) >= 3
IsHelp       == Cmd \in {Str_help, Str_h, Str_help2}

----------------------------------------------------------------------------
(* The entry point *)

Warn ==
    /\ pc = "start"
    /\ out' = IF apiKeySet THEN out ELSE out \o KeyWarning
    /\ pc' = "main"
    /\ UNCHANGED <<argv, apiKeySet, call, resp, data, matches, result, exitCode, exc, gets>>

NoArgs ==
    /\ pc = "main"
    /\ Len(argv) < 2
    /\ out' = out \o Usage
    /\ exitCode' = 1
    /\ pc' = "exited"
    /\ UNCHANGED <<argv, apiKeySet, call, resp, data, matches, result, exc, gets>>

DispatchSearch ==
    /\ pc = "main"
    /\ Len(argv) >= 2
    /\ IsSearch
    /\ call' = [fn |-> "search_stops_by_name",
                query |-> Join(SubSeq(argv, 3, Len(argv)))]
    /\ pc' = "request"
    /\ UNCHANGED <<argv, apiKeySet, resp, data, matches, out, result, exitCode, exc, gets>>

DispatchNearby ==
    /\ pc = "main"
    /\ Len(argv) >= 2
    /\ ~IsSearch /\ IsNearby
    /\ IF FloatParses(argv[3]) /\ FloatParses(argv[4])
       THEN /\ call' = [fn |-> "find_stops_by_lat_lon", lat |-> Float(argv[3]),
                        lon |-> Float(argv[4]), count |-> DefaultCount]
            /\ pc' = "request"
            /\ UNCHANGED <<exitCode, exc>>
       ELSE /\ Raise("ValueError")
            /\ UNCHANGED call
    /\ UNCHANGED <<argv, apiKeySet, resp, data, matches, out, result, gets>>

DispatchDepartures ==
    /\ pc = "main"
    /\ Len(argv) >= 2
    /\ ~IsSearch /\ ~IsNearby /\ IsDepartures
    /\ call' = [fn |-> "get_departures", stop_id |-> argv[3]]
    /\ pc' = "request"
    /\ UNCHANGED <<argv, apiKeySet, resp, data, matches, out, result, exitCode, exc, gets>>

DispatchHelp ==
    /\ pc = "main"
    /\ Len(argv) >= 2
    /\ ~IsSearch /\ ~IsNearby /\ ~IsDepartures /\ IsHelp
    /\ out' = out \o Usage
    /\ pc' = "exited"
    /\ UNCHANGED <<argv, apiKeySet, call, resp, data, matches, result, exitCode, exc, gets>>

DispatchInvalid ==
    /\ pc = "main"
    /\ Len(argv) >= 2
    /\ ~IsSearch /\ ~IsNearby /\ ~IsDepartures /\ ~IsHelp
    /\ out' = out \o <<[kind |-> "invalid"]>> \o Usage
    /\ exitCode' = 1
    /\ pc' = "exited"
    /\ UNCHANGED <<argv, apiKeySet, call, resp, data, matches, result, exc, gets>>

----------------------------------------------------------------------------
(* The request and the two status checks, the same in the three operations *)

\* requests.get(url, timeout=10): a response arrives
Request ==
    /\ pc = "request"
    /\ gets' = gets + 1
    /\ \E r \in Responses(call.fn) : resp' = r
    /\ pc' = "transport"
    /\ UNCHANGED <<argv, apiKeySet, call, data, matches, out, result, exitCode, exc>>

\* requests.get(url, timeout=10): the 10 seconds pass, requests raises Timeout
RequestTimeout ==
    /\ pc = "request"
    /\ gets' = gets + 1
    /\ Raise("Timeout")
    /\ UNCHANGED <<argv, apiKeySet, call, resp, data, matches, out, result>>

\* the transport check comparing against 404 only
CheckTransportOnly404 ==
    /\ pc = "transport"
    /\ IF resp.status_code = 404
       THEN /\ out' = Append(out, TransportError(resp.status_code))
            /\ Return(<<>>)
       ELSE /\ pc' = "json"
            /\ UNCHANGED <<out, result, exitCode, exc>>
    /\ UNCHANGED <<argv, apiKeySet, call, resp, data, matches, gets>>

\* the transport check asking again, once, after a failure
CheckTransportRetry ==
    /\ pc = "transport"
    /\ IF resp.status_code # OK
       THEN IF gets < 2
            THEN /\ pc' = "request"
                 /\ UNCHANGED <<out, result, exitCode, exc>>
            ELSE /\ out' = Append(out, TransportError(resp.status_code))
                 /\ Return(<<>>)
       ELSE /\ pc' = "json"
            /\ UNCHANGED <<out, result, exitCode, exc>>
    /\ UNCHANGED <<argv, apiKeySet, call, resp, data, matches, gets>>

CheckTransport ==
    /\ pc = "transport"
    /\ IF resp.status_code # OK
       THEN /\ out' = Append(out, TransportError(resp.status_code))
            /\ Return(<<>>)
       ELSE /\ pc' = "json"
            /\ UNCHANGED <<out, result, exitCode, exc>>
    /\ UNCHANGED <<argv, apiKeySet, call, resp, data, matches, gets>>

\* data = resp.json()
ParseJson ==
    /\ pc = "json"
    /\ IF resp.body.json = "invalid"
       THEN /\ Raise("JSONDecodeError")
            /\ UNCHANGED data
       ELSE /\ data' = resp.body
            /\ pc' = "status"
            /\ UNCHANGED <<exitCode, exc>>
    /\ UNCHANGED <<argv, apiKeySet, call, resp, matches, out, result, gets>>

\* the nested check with .get("code", 200): a missing code passes
CheckStatusCodeDefaults ==
    /\ pc = "status"
    /\ IF data.json # "object"
       THEN /\ Raise("AttributeError")
            /\ UNCHANGED <<out, result>>
       ELSE LET status == Get(data.value, "status", EmptyDict)
            IN  IF Get(status, "code", OK) # OK
                THEN /\ out' = Append(out, ApiError(Get(status, "msg", "Unknown error")))
                     /\ Return(<<>>)
                ELSE /\ pc' = "list"
                     /\ UNCHANGED <<out, result, exitCode, exc>>
    /\ UNCHANGED <<argv, apiKeySet, call, resp, data, matches, gets>>

\* data.get("status", {}).get("code") != 200
CheckStatus ==
    /\ pc = "status"
    /\ IF data.json # "object"
       THEN /\ Raise("AttributeError")
            /\ UNCHANGED <<out, result>>
       ELSE LET status == Get(data.value, "status", EmptyDict)
            IN  IF ~("code" \in DOMAIN status /\ status.code = OK)
                THEN /\ out' = Append(out, ApiError(Get(status, "msg", "Unknown error")))
                     /\ Return(<<>>)
                ELSE /\ pc' = "list"
                     /\ UNCHANGED <<out, result, exitCode, exc>>
    /\ UNCHANGED <<argv, apiKeySet, call, resp, data, matches, gets>>

----------------------------------------------------------------------------
(* The tables *)

NearbyPrint ==
    /\ pc = "list"
    /\ call.fn = "find_stops_by_lat_lon"
    /\ LET stops == Get(data.value, "stops", <<>>)
           shown == NearbyShown(stops)
           fault == FirstFault(shown, {"stop_id", "stop_name"})
           head  == TableHead([kind |-> "title", lat |-> call.lat, lon |-> call.lon])
           rows  == [i \in 1..(fault - 1) |-> NearbyRow(shown[i])]
       IN  /\ out' = out \o head \o rows
           /\ IF fault <= Len(shown)
              THEN Raise("KeyError") /\ UNCHANGED result
              ELSE Return(stops)
    /\ UNCHANGED <<argv, apiKeySet, call, resp, data, matches, gets>>

SearchFilter ==
    /\ pc = "list"
    /\ call.fn = "search_stops_by_name"
    /\ LET all_stops == Get(data.value, "stops", <<>>)
       IN  IF FirstFault(all_stops, {"stop_name"}) <= Len(all_stops)
           THEN /\ Raise("KeyError")
                /\ UNCHANGED matches
           ELSE /\ matches' = Matches(call.query, all_stops)
                /\ pc' = "print"
                /\ UNCHANGED <<exitCode, exc>>
    /\ UNCHANGED <<argv, apiKeySet, call, resp, data, out, result, gets>>

SearchPrint ==
    /\ pc = "print"
    /\ LET shown == SearchShown(matches)
           fault == FirstFault(shown, {"stop_id"})
           head  == TableHead([kind |-> "title", query |-> call.query,
                               found |-> Len(matches)])
           rows  == [i \in 1..(fault - 1) |-> SearchRow(shown[i])]
       IN  IF fault <= Len(shown)
           THEN /\ out' = out \o head \o rows
                /\ Raise("KeyError")
                /\ UNCHANGED result
           ELSE /\ out' = out \o head \o rows \o
                          (IF Len(matches) > SearchLimit
                           THEN <<More(Len(matches) - SearchLimit)>> ELSE <<>>)
                /\ Return(matches)
    /\ UNCHANGED <<argv, apiKeySet, call, resp, data, matches, gets>>

DeparturesPrint ==
    /\ pc = "list"
    /\ call.fn = "get_departures"
    /\ LET departures == Get(data.value, "departures", <<>>)
           shown == DeparturesShown(departures)
           head  == TableHead([kind |-> "title", stop_id |-> call.stop_id])
           rows  == [i \in 1..Len(shown) |-> DepartureRow(shown[i])]
       IN  /\ out' = out \o head \o rows \o
                     (IF Len(departures) > DepartureLimit
                      THEN <<More(Len(departures) - DepartureLimit)>> ELSE <<>>)
           /\ Return(departures)
    /\ UNCHANGED <<argv, apiKeySet, call, resp, data, matches, gets>>

Next ==
    \/ Warn
    \/ NoArgs
    \/ DispatchSearch
    \/ DispatchNearby
    \/ DispatchDepartures
    \/ DispatchHelp
    \/ DispatchInvalid
    \/ Request
    \/ RequestTimeout
    \/ CheckTransport
    \/ ParseJson
    \/ CheckStatus
    \/ NearbyPrint
    \/ SearchFilter
    \/ SearchPrint
    \/ DeparturesPrint

Spec == Init /\ [][Next]_vars

----------------------------------------------------------------------------
(* Vocabulary of the properties *)

\* a response to the GET has arrived
Responded == "status_code" \in DOMAIN resp

TransportOK == Responded /\ resp.status_code = OK

\* the body of the response is a JSON object
BodyIsObject == Responded /\ resp.body.json = "object"

\* the status object nested in the body, empty when the body has none
NestedStatus == Get(resp.body.value, "status", EmptyDict)

NestedOK == BodyIsObject /\ "code" \in DOMAIN NestedStatus /\ NestedStatus.code = OK

\* both status checks have been made and have passed
ChecksPassed == TransportOK /\ NestedOK /\ pc \in {"list", "print", "exited"}

\* the operation has returned to the entry point
Returned == pc = "exited" /\ exc = "none" /\ call.fn # "none"

Kinds(o) == {o[i].kind : i \in 1..Len(o)}

TableKinds == {"title", "columns", "rule", "row", "more"}

Diagnostics == {"transport_error", "api_error"}

\* the list of the response, under the key the operation reads
Listed(key) == Get(resp.body.value, key, <<>>)

CaseClasses == {{"a", "A"}, {"b", "B"}, {"h", "H"}, {"s", "S"}}

\* c and d are the same character up to case
SameLetter(c, d) == c = d \/ \E cl \in CaseClasses : {c, d} \subseteq cl

\* q occurs in name at some position, letters compared up to case
ContainsIgnoringCase(name, q) ==
    \E i \in 1..(Len(name) + 1) :
        /\ i + Len(q) - 1 <= Len(name)
        /\ \A j \in 1..Len(q) : SameLetter(name[i + j - 1], q[j])

----------------------------------------------------------------------------
(* Properties *)

\* C1: when search_stops_by_name returns after a successful response, its
\* result is the sequence of the roster's stops, in roster order, whose
\* stop_name contains the query up to case: nothing else, nothing omitted.
C1_SearchReturnsMatches ==
    (Returned /\ call.fn = "search_stops_by_name" /\ TransportOK /\ NestedOK) =>
        result = SelectSeq(Listed("stops"),
                           LAMBDA s : ContainsIgnoringCase(s.stop_name, call.query))

\* a search that kept some stops and dropped others, one of the kept stops
\* matching only because case is ignored
C1_Witness ==
    /\ Returned /\ call.fn = "search_stops_by_name" /\ TransportOK /\ NestedOK
    /\ Len(result) > 0
    /\ Len(result) < Len(Listed("stops"))
    /\ \E i \in 1..Len(result) : ~IsSubstring(call.query, result[i].stop_name)

\* C2: once the transport status check has seen a code other than 200, the
\* operation has returned an empty result, one diagnostic holding that code
\* is printed, and no table line is printed.
C2_TransportFailure ==
    (Responded /\ resp.status_code # OK /\ pc # "transport") =>
        /\ Returned
        /\ result = <<>>
        /\ \E i \in 1..Len(out) : out[i] = TransportError(resp.status_code)
        /\ Kinds(out) \cap TableKinds = {}

C2_Witness ==
    /\ Responded /\ resp.status_code = 500 /\ pc = "exited"
    /\ call.fn = "get_departures"
    /\ resp.body.json = "object"

\* C3: once the nested status check has seen a body whose status code is not
\* 200, the operation has returned an empty result and has printed a
\* diagnostic holding the msg field, or "Unknown error" when there is none;
\* no table line is printed.
C3_ApplicationFailure ==
    (TransportOK /\ BodyIsObject /\ ~NestedOK /\ pc \notin {"transport", "json", "status"}) =>
        /\ Returned
        /\ result = <<>>
        /\ \E i \in 1..Len(out) :
              /\ out[i].kind = "api_error"
              /\ out[i].msg = (IF "msg" \in DOMAIN NestedStatus
                               THEN NestedStatus.msg ELSE "Unknown error")
        /\ Kinds(out) \cap TableKinds = {}

\* an application failure without msg, reported as "Unknown error"
C3_Witness ==
    /\ TransportOK /\ BodyIsObject /\ ~NestedOK /\ pc = "exited"
    /\ "msg" \notin DOMAIN NestedStatus
    /\ \E i \in 1..Len(out) : out[i] = ApiError("Unknown error")

\* C4: a request whose timeout expired ends with a printed report and an
\* empty result, not with an uncaught exception.
C4_TimeoutReported ==
    (pc = "exited" /\ gets > 0 /\ ~Responded) =>
        /\ exc = "none"
        /\ result = <<>>
        /\ Kinds(out) \cap Diagnostics # {}

\* the response is malformed for the operation: no JSON, no JSON object, or
\* a stop without stop_id or stop_name
Malformed ==
    \/ resp.body.json # "object"
    \/ /\ call.fn \in {"search_stops_by_name", "find_stops_by_lat_lon"}
       /\ \E i \in 1..Len(Listed("stops")) :
             ~({"stop_id", "stop_name"} \subseteq DOMAIN Listed("stops")[i])

\* C5: a transport-200 response that is malformed ends with a printed
\* diagnostic and an empty result, not with an uncaught exception.
C5_MalformedReported ==
    (pc = "exited" /\ TransportOK /\ Malformed) =>
        /\ exc = "none"
        /\ result = <<>>
        /\ Kinds(out) \cap Diagnostics # {}

\* the argument vector is invalid: no subcommand, an unknown one, too few
\* arguments for it, or a nearby coordinate that is no number
InvalidArgv ==
    \/ Len(argv) < 2
    \/ /\ Len(argv) >= 2
       /\ \/ Cmd \notin {Str_search, Str_nearby, Str_departures, Str_help, Str_h, Str_help2}
          \/ Cmd = Str_search /\ Len(argv) < 3
          \/ Cmd = Str_departures /\ Len(argv) < 3
          \/ Cmd = Str_nearby /\ Len(argv) < 4
          \/ Cmd = Str_nearby /\ Len(argv) >= 4
                /\ ~(FloatParses(argv[3]) /\ FloatParses(argv[4]))

\* C6: a run on an invalid argument vector issues no GET and ends with the
\* usage text printed and a non-zero exit code.
C6_InvalidArgvUsage ==
    InvalidArgv =>
        /\ gets = 0
        /\ pc = "exited" => ("usage" \in Kinds(out) /\ exitCode # 0)

\* C7: search_stops_by_name never prints more than 25 rows, and when it
\* returns after a successful response the "more" line is printed exactly
\* when it found more than 25 matches, holding the number beyond 25.
C7_SearchRowLimit ==
    (call.fn = "search_stops_by_name") =>
        /\ Len(Rows(out)) <= SearchLimit
        /\ (Returned /\ TransportOK /\ NestedOK) =>
              /\ ("more" \in Kinds(out)) <=> (Len(result) > SearchLimit)
              /\ \A i \in 1..Len(out) :
                    out[i].kind = "more" => out[i].n = Len(result) - SearchLimit

C7_Witness ==
    /\ call.fn = "search_stops_by_name" /\ Returned /\ TransportOK /\ NestedOK
    /\ Len(result) = SearchLimit + 2
    /\ Len(Rows(out)) = SearchLimit
    /\ out[Len(out)] = More(2)

\* C8: get_departures never prints more than 15 rows, and when it returns
\* after a successful response the "more" line is printed exactly when the
\* response holds more than 15 departures.
C8_DepartureRowLimit ==
    (call.fn = "get_departures") =>
        /\ Len(Rows(out)) <= DepartureLimit
        /\ (Returned /\ TransportOK /\ NestedOK) =>
              (("more" \in Kinds(out)) <=> (Len(Listed("departures")) > DepartureLimit))

C8_Witness ==
    /\ call.fn = "get_departures" /\ Returned /\ TransportOK /\ NestedOK
    /\ Len(Listed("departures")) = DepartureLimit + 1
    /\ Len(Rows(out)) = DepartureLimit
    /\ "more" \in Kinds(out)

\* C9: find_stops_by_lat_lon never prints more rows than the count it was
\* called with.
C9_NearbyAtMostCount ==
    (call.fn = "find_stops_by_lat_lon") => Len(Rows(out)) <= call.count

\* C10: a run that calls an operation issues exactly one GET, whatever the
\* outcome, a run that calls none issues none, and a row is printed only
\* after the response has arrived and both status checks have passed.
C10_OneGetRowsAfterChecks ==
    /\ gets <= 1
    /\ (call.fn # "none" /\ pc # "request") => gets = 1
    /\ (call.fn = "none" \/ pc = "request") => gets = 0
    /\ "row" \in Kinds(out) => ChecksPassed

\* a run that ended after a transport failure, having asked once
C10_Witness ==
    /\ pc = "exited" /\ gets = 1
    /\ Responded /\ resp.status_code # OK

====
